---- MODULE Spec2Model ----
(***************************************************************************)
(* Fiber isolation over the host runtime's asynchronous-resource hooks.    *)
(*                                                                         *)
(* The module models src/unnamed/part_001 (asyncResourceGraph): the shadow *)
(* graph of AsyncResourceNode, AsyncResourceFiber, the hook adapter, the   *)
(* per-fiber watchdog and the public surface, together with               *)
(* promiseWithReject of src/src/utils.ts.  The host runtime (resources,    *)
(* microtasks, the immediate queue, execution contexts) is the             *)
(* environment: it is modelled by the order in which it delivers the hook  *)
(* callbacks init / before / promiseResolve / after.                       *)
(***************************************************************************)
EXTENDS Integers, Sequences, FiniteSets, TLC

(* ------------------------------------------------------------------ *)
(* Bounds of the model                                                  *)
(* ------------------------------------------------------------------ *)

\* Resources (asyncIds) the free environment may create.
MaxRes == 4
\* Fibers the free environment may create.
MaxFibers == 2
\* Times a repeating resource (a Timeout of setInterval) may execute.
MaxRuns == 2
\* Repeating timers the free environment may create.
MaxTimers == 2
\* Fibers the free environment may launch with a cancellation signal.
MaxSignals == 1
\* The last asyncId of the programs that use the whole fiber interface.
MaxStackRes == 3
\* Nodes of the graphs the taint is applied to, and the targets a node of
\* such a graph has in each of its two maps.
MaxTaintNodes == 3
MaxTaintTargets == 1
\* Calls of taintAsyncResourceGraph that are followed.
MaxTaintCalls == 6

(* ------------------------------------------------------------------ *)
(* AsyncResourceFlags                                                   *)
(* ------------------------------------------------------------------ *)

INIT == 0
PRE_EXECUTION == 1
POST_EXECUTION == 2
RESOLVED == 4
ABORTED == 8
FINALIZED == 6

RECURSIVE BitAnd(_, _)
\* JavaScript's a & b on non-negative integers.
BitAnd(a, b) ==
  IF a = 0 \/ b = 0 THEN 0
  ELSE (a % 2) * (b % 2) + 2 * BitAnd(a \div 2, b \div 2)

\* JavaScript's a | b on non-negative integers.
BitOr(a, b) == a + b - BitAnd(a, b)

HasFlag(flags, f) == BitAnd(flags, f) # 0

(* ------------------------------------------------------------------ *)
(* Sequence helpers                                                     *)
(* ------------------------------------------------------------------ *)

Range(s) == {s[i] : i \in 1..Len(s)}

\* Set.add / Map.set with a fresh key: insertion order is kept.
SeqAdd(s, x) == IF x \in Range(s) THEN s ELSE Append(s, x)

\* Set.delete
SeqDel(s, x) == SelectSeq(s, LAMBDA y : y # x)

Last(s) == s[Len(s)]

\* Array.prototype.indexOf, 1-based; 0 when absent (JavaScript's -1).
IndexOf(s, x) ==
  IF x \in Range(s) THEN CHOOSE i \in 1..Len(s) : s[i] = x /\ \A j \in 1..(i-1) : s[j] # x
  ELSE 0

RemoveAt(s, i) == SubSeq(s, 1, i - 1) \o SubSeq(s, i + 1, Len(s))

VARIABLES
  rt,           \* the runtime's resources: asyncId -> [kind, parent, settled, runs]
  nextId,       \* the runtime's next asyncId
  exec,         \* asyncId of the executing resource; 0 between tasks
  phase,        \* "run" | "post" (a reaction's handler returned; after is due)
  immQ,         \* the runtime's immediate queue: asyncId, or -fiberId for a stall check
  nodes,        \* fiberRef: asyncId -> AsyncResourceNode, for tracked resources
  fibers,       \* fiberId -> AsyncResourceFiber
  fiberIdx,     \* _fiberIdx
  fiberStack,   \* fiberStack
  hookEnabled,  \* asyncResourceGraphHook is enabled
  wd,           \* fiberId -> the closure state of its fiberWatchdog
  callStack,    \* fibers whose fiber() call is running fn
  hookThrew,    \* fiber whose watchdog threw out of the last hook callback, or 0
  prog          \* the user program: free, or a scripted scenario and its position

vars == <<rt, nextId, exec, phase, immQ, nodes, fibers, fiberIdx, fiberStack,
          hookEnabled, wd, callStack, hookThrew, prog>>


(* ------------------------------------------------------------------ *)
(* The code's mutable state, threaded through one callback              *)
(* ------------------------------------------------------------------ *)

\* threw: 0 when the callback has not thrown, the fiber id whose watchdog
\* threw a fault, or -1 for the TypeError of observe().
M0 ==
  [nodes |-> nodes, wd |-> wd, immQ |-> immQ, fibers |-> fibers,
   fiberStack |-> fiberStack, hookEnabled |-> hookEnabled,
   fiberIdx |-> fiberIdx, threw |-> 0]

\* The callback returned (or threw): its final state becomes the program's.
\* The result is bound once, as a value, before it is taken apart.
Commit(result) ==
  \E m \in {result} :
    /\ nodes' = m.nodes
    /\ wd' = m.wd
    /\ immQ' = m.immQ
    /\ fibers' = m.fibers
    /\ fiberStack' = m.fiberStack
    /\ hookEnabled' = m.hookEnabled
    /\ fiberIdx' = m.fiberIdx
    /\ hookThrew' = IF m.threw > 0 THEN m.threw ELSE 0

(* ------------------------------------------------------------------ *)
(* AsyncResourceNode                                                    *)
(* ------------------------------------------------------------------ *)

\* new AsyncResourceNode(fiberId, asyncId, type, frame); the asyncId is the key
\* under which the node is kept, the diagnostic frame is left out.
AsyncResourceNode(fiberId, type) ==
  [fiberId |-> fiberId, type |-> type, active |-> TRUE,
   executionOrigin |-> 0, triggerOrigin |-> 0,
   executionTargets |-> <<>>, triggerTargets |-> <<>>,
   flags |-> INIT, notifyObserver |-> 0]

RECURSIVE SearchExecutionChain(_, _, _)
\* The do/while of getAsyncResourceNode from executionNode e.
SearchExecutionChain(ns, e, asyncId) ==
  IF e = asyncId THEN e
  ELSE IF asyncId \in Range(ns[e].executionTargets) THEN asyncId
  ELSE IF ns[e].executionOrigin # 0
    THEN SearchExecutionChain(ns, ns[e].executionOrigin, asyncId)
  ELSE 0

\* getAsyncResourceNode(asyncId) while resource ex executes; 0 is undefined.
getAsyncResourceNode(ns, ex, asyncId) ==
  IF ex \in DOMAIN ns THEN SearchExecutionChain(ns, ex, asyncId) ELSE 0

(* ------------------------------------------------------------------ *)
(* taintAsyncResourceGraph                                              *)
(* ------------------------------------------------------------------ *)

\* A guard that skips the nodes that carry a flag of the mask.
TaintGuard_SkipMasked(nodeFlags, mask, flags) == BitAnd(nodeFlags, mask) = 0

\* (node.flags & mask & flags) === 0
TaintGuard(nodeFlags, mask, flags) == BitAnd(BitAnd(nodeFlags, mask), flags) = 0

\* The targets the recursion visits, in the order of the two for-loops.
TaintTargets(node) == node.executionTargets \o node.triggerTargets

RECURSIVE taintAsyncResourceGraph(_, _, _, _)
RECURSIVE TaintEach(_, _, _, _)
taintAsyncResourceGraph(ns, n, mask, flags) ==
  IF TaintGuard(ns[n].flags, mask, flags)
    THEN LET ns1 == [ns EXCEPT ![n].flags = BitOr(@, flags)]
         IN TaintEach(ns1, TaintTargets(ns1[n]), mask, flags)
    ELSE ns

TaintEach(ns, targets, mask, flags) ==
  IF targets = <<>> THEN ns
  ELSE TaintEach(taintAsyncResourceGraph(ns, Head(targets), mask, flags),
                 Tail(targets), mask, flags)

(* ------------------------------------------------------------------ *)
(* promiseWithReject and the watchdog's closure                         *)
(* ------------------------------------------------------------------ *)

Unsettled == "unsettled"

\* The watchdog state of a fiber that has none (yet).
NoWatchdog(abort) ==
  [on |-> FALSE, pending |-> <<>>, immediate |-> FALSE, result |-> "none",
   abort |-> abort, ret |-> 0, settleRan |-> FALSE, parentFiberIds |-> {}]

\* A promise that takes the outcome of every resolve and reject.
Settle_Overwrite(w, f, outcome) == [w EXCEPT ![f].result = outcome]

\* A promise settles once: resolve and reject of a settled promise do nothing.
Settle(w, f, outcome) ==
  IF w[f].result = Unsettled THEN [w EXCEPT ![f].result = outcome] ELSE w

\* assertFiberError(error)
assertFiberError(m, f, code, hookActive) ==
  [m EXCEPT !.wd = Settle(m.wd, f, code),
            !.threw = IF hookActive THEN f ELSE @]

\* A classification without the branch for triggerOrigin === fiber.root.
OwnershipFault_NoRootBranch(ns, root, f, parentFiberIds, n) ==
  LET t == ns[n].triggerOrigin IN
  IF ns[n].fiberId # f \/ t = 0 THEN "ok"
  ELSE IF ns[t].fiberId = ns[n].fiberId THEN "ok"
  ELSE IF ns[t].fiberId \notin parentFiberIds THEN "FOREIGN_ASYNC_TRIGGER"
  ELSE "PARENT_ASYNC_TRIGGER"

\* The classification of assertFiberOwnership(node) by fiber f's watchdog.
OwnershipFault(ns, root, f, parentFiberIds, n) ==
  LET t == ns[n].triggerOrigin IN
  IF ns[n].fiberId # f \/ t = 0 THEN "ok"
  ELSE IF t = root THEN "ok"
  ELSE IF ns[t].fiberId = ns[n].fiberId THEN "ok"
  ELSE IF ns[t].fiberId \notin parentFiberIds THEN "FOREIGN_ASYNC_TRIGGER"
  ELSE "PARENT_ASYNC_TRIGGER"

assertFiberOwnership(m, f, n, hookActive) ==
  LET c == OwnershipFault(m.nodes, m.fibers[f].root, f, m.wd[f].parentFiberIds, n)
  IN IF c = "ok" THEN m ELSE assertFiberError(m, f, c, hookActive)

\* A classification that surfaces the signal's reason without testing
\* whether the signal is raised.
AbortFault_ReasonUnchecked(ns, f, aborted, n) ==
  LET t == ns[n].triggerOrigin IN
  IF HasFlag(ns[n].flags, ABORTED) THEN "FIBER_ABORTED"
  ELSE IF t # 0 /\ HasFlag(ns[t].flags, ABORTED)
    THEN IF ns[t].fiberId = f THEN "FIBER_ABORTED" ELSE "FOREIGN_ASYNC_ABORTED"
  ELSE "ABORT_REASON"

\* A classification that does not compare the trigger's fiber with f.
AbortFault_OwnTrigger(ns, f, aborted, n) ==
  LET t == ns[n].triggerOrigin IN
  IF HasFlag(ns[n].flags, ABORTED) THEN "FIBER_ABORTED"
  ELSE IF t # 0 /\ HasFlag(ns[t].flags, ABORTED) THEN "FIBER_ABORTED"
  ELSE IF aborted THEN "ABORT_REASON"
  ELSE "ok"

\* The classification of assertFiberAbort(node) by fiber f's watchdog.
AbortFault(ns, f, aborted, n) ==
  LET t == ns[n].triggerOrigin IN
  IF HasFlag(ns[n].flags, ABORTED) THEN "FIBER_ABORTED"
  ELSE IF t # 0 /\ HasFlag(ns[t].flags, ABORTED)
    THEN IF ns[t].fiberId = f THEN "FIBER_ABORTED" ELSE "FOREIGN_ASYNC_ABORTED"
  ELSE IF aborted THEN "ABORT_REASON"
  ELSE "ok"

assertFiberAbort(m, f, n, hookActive) ==
  LET c == AbortFault(m.nodes, f, m.wd[f].abort = "aborted", n)
  IN IF c = "ok" THEN m ELSE assertFiberError(m, f, c, hookActive)

\* scheduleCheck(): watchdogImmediate || (watchdogImmediate = setImmediate(..))
\* A scheduleCheck that calls setImmediate for every event.
scheduleCheck_Always(m, f) ==
  [m EXCEPT !.wd[f].immediate = TRUE, !.immQ = Append(@, 0 - f)]

scheduleCheck(m, f) ==
  IF m.wd[f].immediate THEN m
  ELSE [m EXCEPT !.wd[f].immediate = TRUE, !.immQ = Append(@, 0 - f)]

\* The observer callback of fiber f's watchdog; it runs inside a hook callback.
callback(m, f, event, n) ==
  LET m1 == scheduleCheck(m, f) IN
  CASE event = INIT ->
         LET m2 == assertFiberOwnership(m1, f, n, TRUE) IN
         IF m2.threw # 0 THEN m2
         ELSE LET m3 == assertFiberAbort(m2, f, n, TRUE) IN
              IF m3.threw # 0 THEN m3
              ELSE [m3 EXCEPT !.wd[f].pending = SeqAdd(@, n)]
    [] event = POST_EXECUTION ->
         [m1 EXCEPT !.wd[f].pending = SeqDel(@, n)]
    [] event = RESOLVED ->
         LET m2 == assertFiberAbort(m1, f, n, TRUE) IN
         IF m2.threw # 0 THEN m2
         ELSE [m2 EXCEPT !.wd[f].pending = SeqDel(@, n)]
    [] OTHER -> m1

(* ------------------------------------------------------------------ *)
(* AsyncResourceObserver (one per watchdog, named by its fiber id)      *)
(* ------------------------------------------------------------------ *)

isObserved(m, f, n) == m.nodes[n].notifyObserver = f

observe(m, f, n) ==
  IF m.nodes[n].notifyObserver # 0 /\ m.nodes[n].notifyObserver # f
    THEN [m EXCEPT !.threw = -1]
    ELSE [m EXCEPT !.nodes[n].notifyObserver = f]

Observer_onInit(m, f, n) ==
  LET m1 == callback(m, f, INIT, n) IN
  IF m1.threw # 0 THEN m1
  ELSE IF m1.nodes[n].fiberId = f THEN observe(m1, f, n) ELSE m1

Observer_onBefore(m, f, n) == callback(m, f, PRE_EXECUTION, n)

Observer_onAfter(m, f, n) ==
  LET m1 == callback(m, f, POST_EXECUTION, n) IN
  IF m1.threw # 0 THEN m1 ELSE [m1 EXCEPT !.nodes[n].notifyObserver = 0]

Observer_onPromiseResolve(m, f, n) ==
  LET m1 == callback(m, f, RESOLVED, n) IN
  IF m1.threw # 0 THEN m1 ELSE [m1 EXCEPT !.nodes[n].notifyObserver = 0]

(* ------------------------------------------------------------------ *)
(* AsyncResourceNode's handlers                                         *)
(* ------------------------------------------------------------------ *)

\* this._onExecute(asyncId, type, triggerAsyncId, resource), this = node e
\* An _onExecute that also records the trigger as a target of the new node.
onExecute_BackEdge(m, e, asyncId, type, triggerAsyncId) ==
  IF ~m.nodes[e].active THEN m
  ELSE
    LET node == [AsyncResourceNode(m.nodes[e].fiberId, type)
                   EXCEPT !.executionOrigin = e]
        ns1 == [(asyncId :> node) @@ m.nodes
                   EXCEPT ![e].executionTargets = SeqAdd(@, asyncId)]
        triggerNode == IF asyncId # triggerAsyncId
                         THEN getAsyncResourceNode(ns1, e, triggerAsyncId)
                         ELSE 0
        ns2 == IF triggerNode # 0
                 THEN [ns1 EXCEPT ![asyncId].triggerOrigin = triggerNode,
                                  ![asyncId].triggerTargets = SeqAdd(@, triggerNode),
                                  ![triggerNode].triggerTargets = SeqAdd(@, asyncId)]
                 ELSE ns1
        m2 == [m EXCEPT !.nodes = ns2]
    IN IF ns2[e].notifyObserver # 0
         THEN Observer_onInit(m2, ns2[e].notifyObserver, asyncId)
         ELSE m2

onExecute(m, e, asyncId, type, triggerAsyncId) ==
  IF ~m.nodes[e].active THEN m
  ELSE
    LET node == [AsyncResourceNode(m.nodes[e].fiberId, type)
                   EXCEPT !.executionOrigin = e]
        ns1 == [(asyncId :> node) @@ m.nodes
                   EXCEPT ![e].executionTargets = SeqAdd(@, asyncId)]
        triggerNode == IF asyncId # triggerAsyncId
                         THEN getAsyncResourceNode(ns1, e, triggerAsyncId)
                         ELSE 0
        ns2 == IF triggerNode # 0
                 THEN [ns1 EXCEPT ![asyncId].triggerOrigin = triggerNode,
                                  ![triggerNode].triggerTargets = SeqAdd(@, asyncId)]
                 ELSE ns1
        m2 == [m EXCEPT !.nodes = ns2]
    IN IF ns2[e].notifyObserver # 0
         THEN Observer_onInit(m2, ns2[e].notifyObserver, asyncId)
         ELSE m2

onBefore(m, n) ==
  LET m1 == [m EXCEPT !.nodes[n].flags = BitOr(@, PRE_EXECUTION)] IN
  IF m1.nodes[n].active /\ m1.nodes[n].notifyObserver # 0
    THEN Observer_onBefore(m1, m1.nodes[n].notifyObserver, n)
    ELSE m1

onAfter(m, n) ==
  LET m1 == [m EXCEPT !.nodes[n].flags = BitOr(@, POST_EXECUTION)] IN
  IF m1.nodes[n].active /\ m1.nodes[n].notifyObserver # 0
    THEN Observer_onAfter(m1, m1.nodes[n].notifyObserver, n)
    ELSE m1

onPromiseResolve(m, n) ==
  LET m1 == [m EXCEPT !.nodes[n].flags = BitOr(@, RESOLVED)] IN
  IF m1.nodes[n].active /\ m1.nodes[n].notifyObserver # 0
    THEN Observer_onPromiseResolve(m1, m1.nodes[n].notifyObserver, n)
    ELSE m1

(* ------------------------------------------------------------------ *)
(* asyncResourceGraphHook: the four callbacks, while resource ex executes*)
(* _asyncResourceGraphHookActive is false between callbacks, so init's  *)
(* guard passes whenever the runtime (not the adapter) creates a        *)
(* resource; inside a callback it is true, which is the hookActive      *)
(* argument of the watchdog's assertions.                               *)
(* ------------------------------------------------------------------ *)

hook_init(m, ex, asyncId, type, triggerAsyncId) ==
  IF m.hookEnabled /\ ex \in DOMAIN m.nodes
    THEN onExecute(m, ex, asyncId, type, triggerAsyncId)
    ELSE m

hook_before(m, ex, asyncId) ==
  LET n == getAsyncResourceNode(m.nodes, ex, asyncId) IN
  IF m.hookEnabled /\ n # 0 THEN onBefore(m, n) ELSE m

hook_after(m, ex, asyncId) ==
  LET n == getAsyncResourceNode(m.nodes, ex, asyncId) IN
  IF m.hookEnabled /\ n # 0 THEN onAfter(m, n) ELSE m

hook_promiseResolve(m, ex, asyncId) ==
  LET n == getAsyncResourceNode(m.nodes, ex, asyncId) IN
  IF m.hookEnabled /\ n # 0 THEN onPromiseResolve(m, n) ELSE m

(* ------------------------------------------------------------------ *)
(* AsyncResourceFiber                                                   *)
(* ------------------------------------------------------------------ *)

\* getFiber(): the topmost active fiber of the stack; 0 is null.
getFiber(m) ==
  LET act == {i \in 1..Len(m.fiberStack) : m.fibers[m.fiberStack[i]].active} IN
  IF act = {} THEN 0
  ELSE m.fiberStack[CHOOSE i \in act : \A j \in act : j <= i]

\* new AsyncResourceFiber(frame) while resource ex executes; the new fiber's
\* id is m.fiberIdx.  abort is the state of params.abort ("none": no signal).
Fiber_new(m, ex, abort) ==
  LET f == m.fiberIdx
      ns == IF ex \in DOMAIN m.nodes THEN m.nodes
            ELSE (ex :> AsyncResourceNode(f, "null")) @@ m.nodes
  IN [m EXCEPT !.fiberIdx = f + 1,
               !.nodes = ns,
               !.fibers = (f :> [root |-> ex, parent |-> getFiber(m), active |-> FALSE]) @@ @,
               !.wd = (f :> NoWatchdog(abort)) @@ @]

Fiber_enable(m, f) ==
  IF ~m.fibers[f].active
    THEN [m EXCEPT !.nodes[m.fibers[f].root].fiberId = f,
                   !.fibers[f].active = TRUE,
                   !.fiberStack = Append(@, f),
                   !.hookEnabled = TRUE]
    ELSE m

\* fiberStack.splice(fiberStack.indexOf(this), 1): indexOf is -1 for a fiber
\* that is not on the stack, and splice(-1, 1) removes the last element.
SpliceIndexOf(stack, f) ==
  IF IndexOf(stack, f) # 0 THEN RemoveAt(stack, IndexOf(stack, f))
  ELSE IF stack = <<>> THEN stack
  ELSE RemoveAt(stack, Len(stack))

\* A disable() that resets the fiber id of every node the fiber owns.
Fiber_disable_RelabelOwned(m, f) ==
  LET m1 == [m EXCEPT !.fiberStack = SpliceIndexOf(@, f)]
      m2 == [m1 EXCEPT !.hookEnabled = IF m1.fiberStack = <<>> THEN FALSE ELSE @]
  IN [m2 EXCEPT !.nodes = [n \in DOMAIN m.nodes |->
                             IF m.nodes[n].fiberId = f \/ n = m.fibers[f].root
                               THEN [m.nodes[n] EXCEPT !.fiberId = getFiber(m2)]
                               ELSE m.nodes[n]],
                !.fibers[f].active = FALSE]

\* A disable() that resets the root to the fiber's parent.
Fiber_disable_ToParent(m, f) ==
  LET m1 == [m EXCEPT !.fiberStack = SpliceIndexOf(@, f)]
      m2 == [m1 EXCEPT !.hookEnabled = IF m1.fiberStack = <<>> THEN FALSE ELSE @]
  IN [m2 EXCEPT !.nodes[m.fibers[f].root].fiberId = m.fibers[f].parent,
                !.fibers[f].active = FALSE]

\* A disable() that leaves the fiber on the stack.
Fiber_disable_NoSplice(m, f) ==
  [m EXCEPT !.nodes[m.fibers[f].root].fiberId = getFiber(m),
            !.fibers[f].active = FALSE]

Fiber_disable(m, f) ==
  LET m1 == [m EXCEPT !.fiberStack = SpliceIndexOf(@, f)]
      m2 == [m1 EXCEPT !.hookEnabled = IF m1.fiberStack = <<>> THEN FALSE ELSE @]
  IN [m2 EXCEPT !.nodes[m.fibers[f].root].fiberId = getFiber(m2),
                !.fibers[f].active = FALSE]

RECURSIVE ParentChain(_, _)
\* get parentFiberIds(), as a set (it is only searched with includes)
ParentChain(fs, f) ==
  IF fs[f].parent = 0 THEN {}
  ELSE {fs[f].parent} \cup ParentChain(fs, fs[f].parent)

(* ------------------------------------------------------------------ *)
(* fiberWatchdog(fiber, params, promise)                                *)
(* ------------------------------------------------------------------ *)

\* The one element of a singleton.  {F(x) : x \in {e}} binds x to the value
\* of e, so a state that is used several times is computed once.
The(S) == CHOOSE x \in S : TRUE

\* A setup walk that observes and registers its targets without checking
\* their ownership.
SetupVisit_Unchecked(m, f, t) ==
  The({ IF m1.threw # 0 THEN m1
        ELSE IF BitAnd(m1.nodes[t].flags, FINALIZED) = 0
          THEN [m1 EXCEPT !.wd[f].pending = SeqAdd(@, t)]
          ELSE m1 : m1 \in {observe(m, f, t)} })

\* The body of both setup loops for one target: observe it and, when it is
\* not finalized, check its ownership and add it to the pending set.
\* Setup runs outside any hook callback, so the assertion does not throw.
SetupVisit(m, f, t) ==
  The({ IF m1.threw # 0 THEN m1
        ELSE IF BitAnd(m1.nodes[t].flags, FINALIZED) = 0
          THEN [assertFiberOwnership(m1, f, t, FALSE)
                  EXCEPT !.wd[f].pending = SeqAdd(@, t)]
          ELSE m1 : m1 \in {observe(m, f, t)} })

RECURSIVE SetupRootTargets(_, _, _, _)
\* for (const target of fiber.root.executionTargets.values()) ...
SetupRootTargets(m0, f, targets, stack) ==
  The({ IF targets = <<>> \/ m.threw # 0 THEN [m |-> m, stack |-> stack]
        ELSE IF m.nodes[Head(targets)].fiberId = f
          THEN SetupRootTargets(SetupVisit(m, f, Head(targets)), f, Tail(targets),
                                Append(stack, Head(targets)))
          ELSE SetupRootTargets(m, f, Tail(targets), stack) : m \in {m0} })

RECURSIVE SetupTargets(_, _, _, _)
\* for (const target of pointer.executionTargets.values()) ...
SetupTargets(m0, f, targets, stack) ==
  The({ IF targets = <<>> \/ m.threw # 0 THEN [m |-> m, stack |-> stack]
        ELSE IF ~isObserved(m, f, Head(targets))
          THEN SetupTargets(SetupVisit(m, f, Head(targets)), f, Tail(targets),
                            Append(stack, Head(targets)))
          ELSE SetupTargets(m, f, Tail(targets), stack) : m \in {m0} })

RECURSIVE SetupStack(_, _, _)
\* while ((pointer = stack.pop())) ...
SetupStack(m0, f, stack) ==
  The({ IF stack = <<>> \/ m.threw # 0 THEN m
        ELSE The({ SetupStack(r.m, f, r.stack) :
                   r \in {SetupTargets(m, f, m.nodes[Last(stack)].executionTargets,
                                       SubSeq(stack, 1, Len(stack) - 1))} })
        : m \in {m0} })

\* The watchdog's closure when fiberWatchdog starts: root.active = false,
\* promiseWithReject(promise, ..), setImmediate(stallWatchdog).
WatchdogStart(m, f, ret) ==
  [m EXCEPT !.nodes[m.fibers[f].root].active = FALSE,
            !.wd[f] = [on |-> TRUE, pending |-> <<>>, immediate |-> TRUE,
                       result |-> Unsettled, abort |-> @.abort,
                       ret |-> ret, settleRan |-> FALSE,
                       parentFiberIds |-> ParentChain(m.fibers, f)],
            !.immQ = Append(@, 0 - f)]

\* fiberWatchdog: ret is the asyncId of the promise fn returned.
fiberWatchdog(m, f, ret) ==
  The({ The({ [SetupStack(r.m, f, r.stack)
                 EXCEPT !.nodes[m.fibers[f].root].active = FALSE] :
              r \in {SetupRootTargets(m1, f,
                       m1.nodes[m.fibers[f].root].executionTargets, <<>>)} })
        : m1 \in {WatchdogStart(m, f, ret)} })

\* A stall check that takes only pending promises for asynchronous IO.
HasAsyncIO_PromiseOnly(m, f) ==
  \E i \in 1..Len(m.wd[f].pending) :
     /\ BitAnd(m.nodes[m.wd[f].pending[i]].flags, FINALIZED) = 0
     /\ m.nodes[m.wd[f].pending[i]].type = "PROMISE"

\* A stall check that counts pending promises as asynchronous IO.
HasAsyncIO_AnyType(m, f) ==
  \E i \in 1..Len(m.wd[f].pending) :
     BitAnd(m.nodes[m.wd[f].pending[i]].flags, FINALIZED) = 0

\* stallWatchdog(): the immediate callback of fiber f's watchdog
HasAsyncIO(m, f) ==
  \E i \in 1..Len(m.wd[f].pending) :
     /\ BitAnd(m.nodes[m.wd[f].pending[i]].flags, FINALIZED) = 0
     /\ m.nodes[m.wd[f].pending[i]].type # "PROMISE"

stallWatchdog(m, f) ==
  LET m1 == [m EXCEPT !.wd[f].immediate = FALSE] IN
  IF m1.wd[f].abort = "aborted" THEN m1
  ELSE IF ~HasAsyncIO(m1, f) THEN [m1 EXCEPT !.wd = Settle(m1.wd, f, "FIBER_STALL")]
  ELSE m1

\* The callbacks promiseWithReject passes to promise.then: settle the wrapped
\* result with the user's outcome, then onSettled() clears the stall check.
promiseSettled(m, f, outcome) ==
  LET m1 == [m EXCEPT !.wd = Settle(m.wd, f, outcome), !.wd[f].settleRan = TRUE] IN
  IF m1.wd[f].immediate
    THEN [m1 EXCEPT !.wd[f].immediate = FALSE, !.immQ = SeqDel(@, 0 - f)]
    ELSE m1

\* The listener of the signal's abort event.
abortListener(m, f) ==
  [m EXCEPT !.nodes = taintAsyncResourceGraph(m.nodes, m.fibers[f].root,
                                              FINALIZED, ABORTED)]

(* ------------------------------------------------------------------ *)
(* The host runtime                                                     *)
(* ------------------------------------------------------------------ *)

\* A resource of the runtime.  type is the string init reports; reaction is
\* TRUE for a promise made by then/await on promise `parent` (it executes once,
\* as a microtask, after `parent` settled, and is resolved when its handler
\* returns); otherwise parent is the resource that was executing.
Resource(type, reaction, parent) ==
  [type |-> type, reaction |-> reaction, parent |-> parent,
   settled |-> FALSE, runs |-> 0]

Running == exec # 0 /\ phase = "run"

Idle == exec = 0

\* Reactions whose promise has settled: the microtask queue.
ReadyReactions ==
  {p \in DOMAIN rt : rt[p].reaction /\ rt[p].runs = 0 /\ rt[rt[p].parent].settled}

\* Watchdogs whose wrapped promise has settled and whose then-callback is due.
ReadySettles ==
  {f \in DOMAIN wd : wd[f].on /\ ~wd[f].settleRan /\ rt[wd[f].ret].settled}

\* Macrotasks run only once the microtask queue has drained.
MicrotasksDrained == ReadyReactions = {} /\ ReadySettles = {}

\* The runtime creates resource nextId while exec executes, and reports init.
RtInit(type, reaction, parent) ==
  /\ Running
  /\ LET id == nextId
         m == hook_init(M0, exec, id, type, IF reaction THEN parent ELSE exec)
     IN /\ rt' = (id :> Resource(type, reaction, IF reaction THEN parent ELSE exec)) @@ rt
        /\ nextId' = id + 1
        /\ Commit(IF type = "Immediate" THEN [m EXCEPT !.immQ = Append(@, id)] ELSE m)
  /\ UNCHANGED <<exec, phase, callStack>>

\* User code resolves (or rejects) promise p: promiseResolve(p).
RtResolve(p) ==
  /\ Running
  /\ rt[p].type = "PROMISE" /\ ~rt[p].reaction /\ ~rt[p].settled
  /\ rt' = [rt EXCEPT ![p].settled = TRUE]
  /\ Commit(hook_promiseResolve(M0, exec, p))
  /\ UNCHANGED <<nextId, exec, phase, callStack>>

\* A microtask: the reaction job of promise p starts, before(p).
RunReaction(p) ==
  /\ Idle
  /\ p \in ReadyReactions
  /\ rt' = [rt EXCEPT ![p].runs = 1]
  /\ exec' = p
  /\ phase' = "run"
  /\ Commit(hook_before(M0, p, p))
  /\ UNCHANGED <<nextId, callStack>>

\* The handler of the executing reaction returned: its promise is resolved.
ReactionReturns ==
  /\ Running /\ callStack = <<>>
  /\ rt[exec].reaction
  /\ rt' = [rt EXCEPT ![exec].settled = TRUE]
  /\ phase' = "post"
  /\ Commit(hook_promiseResolve(M0, exec, exec))
  /\ UNCHANGED <<nextId, exec, callStack>>

\* after(exec) of a reaction job.
ReactionAfter ==
  /\ exec # 0 /\ phase = "post"
  /\ exec' = 0
  /\ phase' = "run"
  /\ Commit(hook_after(M0, exec, exec))
  /\ UNCHANGED <<rt, nextId, callStack>>

\* A macrotask: the head of the immediate queue is a user's Immediate.
RunImmediate ==
  /\ Idle /\ MicrotasksDrained
  /\ immQ # <<>> /\ Head(immQ) > 0
  /\ LET id == Head(immQ) IN
     /\ rt' = [rt EXCEPT ![id].runs = 1]
     /\ exec' = id
     /\ phase' = "run"
     /\ Commit(hook_before([M0 EXCEPT !.immQ = Tail(@)], id, id))
  /\ UNCHANGED <<nextId, callStack>>

\* A macrotask: a repeating timer fires, in a turn of the event loop whose
\* immediates have all run.
RunTimeout(id) ==
  /\ Idle /\ MicrotasksDrained /\ immQ = <<>>
  /\ rt[id].type = "Timeout" /\ rt[id].runs < MaxRuns
  /\ rt' = [rt EXCEPT ![id].runs = @ + 1]
  /\ exec' = id
  /\ phase' = "run"
  /\ Commit(hook_before(M0, id, id))
  /\ UNCHANGED <<nextId, callStack>>

\* The callback of the executing macrotask returned: after(exec).
TaskReturns ==
  /\ Running /\ callStack = <<>>
  /\ rt[exec].type \in {"Immediate", "Timeout"}
  /\ exec' = 0
  /\ Commit(hook_after(M0, exec, exec))
  /\ UNCHANGED <<rt, nextId, phase, callStack>>

\* The main script returned (it is no resource of the hook: no after).
MainReturns ==
  /\ Running /\ callStack = <<>>
  /\ rt[exec].type = "TOP"
  /\ exec' = 0
  /\ hookThrew' = 0
  /\ UNCHANGED <<rt, nextId, phase, immQ, nodes, fibers, fiberIdx, fiberStack,
                 hookEnabled, wd, callStack>>

\* A macrotask: the head of the immediate queue is fiber f's stall check.
StallCheck ==
  /\ Idle /\ MicrotasksDrained
  /\ immQ # <<>> /\ Head(immQ) < 0
  /\ Commit(stallWatchdog([M0 EXCEPT !.immQ = Tail(@)], 0 - Head(immQ)))
  /\ UNCHANGED <<rt, nextId, exec, phase, callStack>>

\* A microtask: fn's promise settled with outcome, promiseWithReject passes it on.
PromiseSettled(f, outcome) ==
  /\ Idle
  /\ f \in ReadySettles
  /\ Commit(promiseSettled(M0, f, outcome))
  /\ UNCHANGED <<rt, nextId, exec, phase, callStack>>

\* Fiber f's signal fires.  The listener is registered by fiberWatchdog.
Abort(f) ==
  /\ phase = "run"
  /\ f \in DOMAIN wd /\ wd[f].abort = "idle"
  /\ LET m == [M0 EXCEPT !.wd[f].abort = "aborted"] IN
     Commit(IF wd[f].on THEN abortListener(m, f) ELSE m)
  /\ UNCHANGED <<rt, nextId, exec, phase, callStack>>

(* ------------------------------------------------------------------ *)
(* Public surface                                                       *)
(* ------------------------------------------------------------------ *)

\* enable()
enable ==
  /\ Running
  /\ Commit(IF getFiber(M0) # 0 THEN M0
            ELSE Fiber_enable(Fiber_new(M0, exec, "none"), fiberIdx))
  /\ UNCHANGED <<rt, nextId, exec, phase, callStack>>

\* disable()
disable ==
  /\ Running
  /\ Commit(IF getFiber(M0) # 0 THEN Fiber_disable(M0, getFiber(M0)) ELSE M0)
  /\ UNCHANGED <<rt, nextId, exec, phase, callStack>>

\* fiber(fn, params) up to the call of fn: new AsyncResourceFiber, enable().
FiberCall(abort) ==
  /\ Running
  /\ Commit(Fiber_enable(Fiber_new(M0, exec, abort), fiberIdx))
  /\ callStack' = Append(callStack, fiberIdx)
  /\ UNCHANGED <<rt, nextId, exec, phase>>

\* fiber(fn, params) from the return of fn, which returned promise ret:
\* fiberWatchdog(fiber, params, ret), then finally fiber.disable().
FiberReturn(ret) ==
  /\ Running /\ callStack # <<>>
  /\ rt[ret].type = "PROMISE"
  /\ LET f == Last(callStack) IN
     Commit(Fiber_disable([fiberWatchdog(M0, f, ret) EXCEPT !.threw = 0], f))
  /\ callStack' = SubSeq(callStack, 1, Len(callStack) - 1)
  /\ UNCHANGED <<rt, nextId, exec, phase>>

\* fiber(fn, params) when fn throws: only finally fiber.disable() runs.
FiberThrow ==
  /\ Running /\ callStack # <<>>
  /\ Commit(Fiber_disable(M0, Last(callStack)))
  /\ callStack' = SubSeq(callStack, 1, Len(callStack) - 1)
  /\ UNCHANGED <<rt, nextId, exec, phase>>

\* enable() and disable() called on a fiber object a caller holds.
ObjEnable(f) ==
  /\ Running /\ f \in DOMAIN fibers
  /\ Commit(Fiber_enable(M0, f))
  /\ UNCHANGED <<rt, nextId, exec, phase, callStack>>

ObjDisable(f) ==
  /\ Running /\ f \in DOMAIN fibers
  /\ Commit(Fiber_disable(M0, f))
  /\ UNCHANGED <<rt, nextId, exec, phase, callStack>>

(* ------------------------------------------------------------------ *)
(* Specification: any user program over a bounded number of resources   *)
(* ------------------------------------------------------------------ *)

Promises == {p \in DOMAIN rt : rt[p].type = "PROMISE"}

\* The state of the runtime and of the module when the main script starts.
InitRuntime ==
  /\ rt = (1 :> [type |-> "TOP", reaction |-> FALSE, parent |-> 0,
                 settled |-> FALSE, runs |-> 1])
  /\ nextId = 2
  /\ exec = 1
  /\ phase = "run"
  /\ immQ = <<>>
  /\ nodes = <<>>
  /\ fibers = <<>>
  /\ fiberIdx = 1
  /\ fiberStack = <<>>
  /\ hookEnabled = FALSE
  /\ wd = <<>>
  /\ callStack = <<>>
  /\ hookThrew = 0

\* A user program.  share, async and ctx select a scripted scenario; the
\* other fields are the script's position and the asyncIds and fiber id it
\* has bound to its variables (0: not yet bound).
Program(share, async, ctx) ==
  [share |-> share, async |-> async, ctx |-> ctx, pc |-> "start",
   body |-> 0, shared |-> 0, imm |-> 0, retA |-> 0, ret |-> 0, r0 |-> 0,
   aw0 |-> 0, never |-> 0, aw |-> 0, timer |-> 0, timer2 |-> 0, B |-> 0,
   turns |-> 0]

Init ==
  /\ InitRuntime
  /\ prog = Program("free", FALSE, "top")

(* ------------------------------------------------------------------ *)
(* The free environment: any user program over bounded resources.       *)
(* Every step leaves prog, the script of the scenarios, alone.          *)
(* ------------------------------------------------------------------ *)

\* User code creates a resource: a promise, an immediate, or a promise
\* reacting to promise p (p.then, await p).
UserInit ==
  /\ nextId <= MaxRes
  /\ \/ \E type \in {"PROMISE", "Immediate"} : RtInit(type, FALSE, 0)
     \/ \E p \in Promises : RtInit("PROMISE", TRUE, p)
  /\ UNCHANGED prog

\* User code creates a repeating timer (setInterval).
UserTimer ==
  /\ nextId <= MaxRes
  /\ Cardinality({r \in DOMAIN rt : rt[r].type = "Timeout"}) < MaxTimers
  /\ RtInit("Timeout", FALSE, 0)
  /\ UNCHANGED prog

UserResolve == (\E p \in Promises : RtResolve(p)) /\ UNCHANGED prog

\* fiber(fn) is called
UserFiber ==
  /\ fiberIdx <= MaxFibers
  /\ FiberCall("none")
  /\ UNCHANGED prog

\* fiber(fn, {abort}) is called with a signal that has not fired
UserFiberAbortable ==
  /\ fiberIdx <= MaxFibers
  /\ Cardinality({f \in DOMAIN wd : wd[f].abort # "none"}) < MaxSignals
  /\ FiberCall("idle")
  /\ UNCHANGED prog

\* fn returns a promise to fiber()
UserFiberReturn == (\E ret \in Promises : FiberReturn(ret)) /\ UNCHANGED prog

\* The signal of fiber f fires, between two tasks or while fn of f runs.
UserAbort ==
  /\ \E f \in DOMAIN wd :
       /\ Idle \/ (callStack # <<>> /\ Last(callStack) = f)
       /\ Abort(f)
  /\ UNCHANGED prog

UserEnable == fiberIdx <= MaxFibers /\ enable /\ UNCHANGED prog

\* The runtime runs the next microtask.
Microtask ==
  /\ \/ \E p \in DOMAIN rt : RunReaction(p)
     \/ \E f \in DOMAIN wd : PromiseSettled(f, "user")
  /\ UNCHANGED prog

\* The runtime runs the next entry of the immediate queue.
Macrotask == (RunImmediate \/ StallCheck) /\ UNCHANGED prog

\* A repeating timer of the user fires.
TimerTask == (\E id \in DOMAIN rt : RunTimeout(id)) /\ UNCHANGED prog

\* The code of the executing resource returns to the runtime.
Returns ==
  /\ ReactionReturns \/ ReactionAfter \/ TaskReturns \/ MainReturns
  /\ UNCHANGED prog

NextCore ==
  \/ UserInit
  \/ UserResolve
  \/ UserEnable
  \/ UserFiber
  \/ UserFiberReturn
  \/ Microtask
  \/ Macrotask
  \/ Returns

\* Programs without cancellation signals, with repeating timers.
Next ==
  \/ NextCore
  \/ UserTimer
  \/ TimerTask

Spec == Init /\ [][Next]_vars

\* Programs with cancellation signals.
NextAbort ==
  \/ NextCore
  \/ UserFiberAbortable
  \/ UserAbort

SpecAbort == Init /\ [][NextAbort]_vars

\* The event loop with cancellation signals: a due microtask and a due
\* immediate are run, and the code that executes returns (an fn returns a
\* promise to fiber()).  Nothing obliges the user's code to create, resolve,
\* launch or cancel anything.
SpecAbortLive ==
  /\ SpecAbort
  /\ WF_vars(Microtask) /\ WF_vars(Macrotask)
  /\ WF_vars(Returns) /\ WF_vars(UserFiberReturn)

\* disable() is called, outside the synchronous part of any fiber(fn)
UserDisable == callStack = <<>> /\ disable /\ UNCHANGED prog

\* fn throws to fiber()
UserFiberThrow == FiberThrow /\ UNCHANGED prog

\* A caller that holds a fiber (from enable() or from fiber()) calls its
\* enable() or disable(), outside the synchronous part of any fiber(fn).
UserObjEnable ==
  /\ callStack = <<>>
  /\ \E f \in DOMAIN fibers : ObjEnable(f)
  /\ UNCHANGED prog

UserObjDisable ==
  /\ callStack = <<>>
  /\ \E f \in DOMAIN fibers : ObjDisable(f)
  /\ UNCHANGED prog

\* User code creates a resource, in a program over fewer resources.
UserInitStack ==
  /\ nextId <= MaxStackRes
  /\ \/ \E type \in {"PROMISE", "Immediate"} : RtInit(type, FALSE, 0)
     \/ \E p \in Promises : RtInit("PROMISE", TRUE, p)
  /\ UNCHANGED prog

\* Programs that use the whole fiber interface: enable(), disable(), fiber()
\* with an fn that returns or throws, and the methods of the fibers.
NextStack ==
  \/ UserInitStack
  \/ UserResolve
  \/ UserEnable
  \/ UserFiber
  \/ UserFiberReturn
  \/ Microtask
  \/ Macrotask
  \/ Returns
  \/ UserDisable
  \/ UserFiberThrow
  \/ UserObjEnable
  \/ UserObjDisable

SpecStack == Init /\ [][NextStack]_vars

(* ------------------------------------------------------------------ *)
(* taintAsyncResourceGraph, call by call, on any graph                  *)
(*                                                                      *)
(* nodes is the graph; prog.todo holds the calls that are still to be   *)
(* made, in the order the recursion makes them, prog.marked counts for  *)
(* every node the calls that passed the guard and marked it.            *)
(* ------------------------------------------------------------------ *)

\* Sequences without repetition of at most k elements of S: the values() of
\* a Map keyed by asyncId.
RECURSIVE TargetLists(_, _)
TargetLists(S, k) ==
  IF k = 0 THEN {<<>>}
  ELSE LET shorter == TargetLists(S, k - 1)
       IN shorter \cup
          {q \in {Append(r, x) : r \in shorter, x \in S} :
             \A i, j \in 1..Len(q) : q[i] = q[j] => i = j}

\* Any graph over MaxTaintNodes nodes, cyclic ones included, none of them
\* tainted yet; the call taintAsyncResourceGraph(1, FINALIZED, ABORTED) is due.
InitTaint ==
  /\ rt = (1 :> [type |-> "TOP", reaction |-> FALSE, parent |-> 0,
                 settled |-> FALSE, runs |-> 1])
  /\ nextId = 2 /\ exec = 1 /\ phase = "run" /\ immQ = <<>>
  /\ fibers = <<>> /\ fiberIdx = 1 /\ fiberStack = <<>>
  /\ hookEnabled = FALSE /\ wd = <<>> /\ callStack = <<>> /\ hookThrew = 0
  /\ nodes \in [1..MaxTaintNodes ->
       {[AsyncResourceNode(1, "PROMISE")
           EXCEPT !.executionTargets = et, !.triggerTargets = tt, !.flags = fl] :
          et \in TargetLists(1..MaxTaintNodes, MaxTaintTargets),
          tt \in TargetLists(1..MaxTaintNodes, MaxTaintTargets),
          fl \in {INIT, RESOLVED}}]
  /\ prog = [share |-> "taint", todo |-> <<1>>, calls |-> 0,
             marked |-> [n \in 1..MaxTaintNodes |-> 0]]

\* One call taintAsyncResourceGraph(node, FINALIZED, ABORTED): when the guard
\* passes, the node is marked and the calls for its targets come next.
TaintCall ==
  /\ prog.todo # <<>> /\ prog.calls < MaxTaintCalls
  /\ LET n == Head(prog.todo) IN
     IF TaintGuard(nodes[n].flags, FINALIZED, ABORTED)
       THEN /\ nodes' = [nodes EXCEPT ![n].flags = BitOr(@, ABORTED)]
            /\ prog' = [prog EXCEPT !.todo = TaintTargets(nodes[n]) \o Tail(@),
                                    !.calls = @ + 1,
                                    !.marked[n] = @ + 1]
       ELSE /\ nodes' = nodes
            /\ prog' = [prog EXCEPT !.todo = Tail(@), !.calls = @ + 1]
  /\ UNCHANGED <<rt, nextId, exec, phase, immQ, fibers, fiberIdx, fiberStack,
                 hookEnabled, wd, callStack, hookThrew>>

SpecTaint == InitTaint /\ [][TaintCall]_vars

(* ------------------------------------------------------------------ *)
(* The scenarios of the test file, as scripted user programs.           *)
(*                                                                      *)
(*   share = "parent":  shared = new Promise(r => setImmediate(r)) in   *)
(*                      the launching context, then fiber B awaits it   *)
(*   share = "sibling": fiber A creates shared, then fiber B, launched  *)
(*                      from the same context, awaits it                *)
(*   share = "own":     fiber B awaits new Promise(() => {})            *)
(*   share = "interval": shared as for "parent"; fiber B starts an      *)
(*                      interval whose second run calls shared.then(),  *)
(*                      and a timer that has not fired yet              *)
(*   async:             B first awaits Promise.resolve()                *)
(*   ctx:               the launching context is the one enable() was   *)
(*                      called in ("top") or a later tracked one        *)
(* ------------------------------------------------------------------ *)

Shares == {"parent", "sibling", "own", "interval"}

InitScenario ==
  /\ InitRuntime
  /\ \E share \in Shares, async \in BOOLEAN, ctx \in {"top", "child"} :
       prog = Program(share, async, ctx)

\* The first statement of the test body.
BodyEntry ==
  CASE prog.share \in {"parent", "interval"} -> "mkShared"
    [] prog.share = "sibling" -> "callA"
    [] OTHER -> "callB"

\* The statement of B's body that awaits the deferred value under test, or
\* starts its timers.
AwaitEntry ==
  CASE prog.share = "own" -> "mkNever"
    [] prog.share = "interval" -> "mkInterval"
    [] OTHER -> "awaitShared"

\* The statement after that await was issued: the synchronous part of fn
\* returns to fiber(), a continuation returns to the runtime.
AfterAwait == IF callStack # <<>> THEN "returnB" ELSE "end"

\* The first statement of the code that runs when resource id executes.
Entry(id) ==
  CASE id = prog.body -> BodyEntry
    [] id = prog.imm -> "resolveShared"
    [] id = prog.aw0 -> AwaitEntry
    [] id = prog.aw -> "resolveRet"
    [] OTHER -> "end"

\* Scheduler turns since the last graph event: a step that changes the
\* shadow graph resets the count, a macrotask that does not adds one.
Turns(macrotask) ==
  IF nodes' # nodes THEN 0
  ELSE IF macrotask THEN prog.turns + 1
  ELSE prog.turns

\* One statement of the user program.
Statement ==
  \/ /\ prog.pc = "start"
     /\ enable
     /\ prog' = [prog EXCEPT !.pc = IF prog.ctx = "child" THEN "mkBody" ELSE BodyEntry,
                             !.turns = Turns(FALSE)]
  \/ /\ prog.pc = "mkBody"
     /\ RtInit("Immediate", FALSE, 0)
     /\ prog' = [prog EXCEPT !.pc = "end", !.body = nextId, !.turns = Turns(FALSE)]
  \/ /\ prog.pc = "mkShared"
     /\ RtInit("PROMISE", FALSE, 0)
     /\ prog' = [prog EXCEPT !.pc = "mkImm", !.shared = nextId, !.turns = Turns(FALSE)]
  \/ /\ prog.pc = "mkImm"
     /\ RtInit("Immediate", FALSE, 0)
     /\ prog' = [prog EXCEPT !.pc = IF prog.share = "sibling" THEN "resolveRetA" ELSE "callB",
                             !.imm = nextId, !.turns = Turns(FALSE)]
  \/ /\ prog.pc = "callA"
     /\ FiberCall("none")
     /\ prog' = [prog EXCEPT !.pc = "mkRetA", !.turns = Turns(FALSE)]
  \/ /\ prog.pc = "mkRetA"
     /\ RtInit("PROMISE", FALSE, 0)
     /\ prog' = [prog EXCEPT !.pc = "mkShared", !.retA = nextId, !.turns = Turns(FALSE)]
  \/ /\ prog.pc = "resolveRetA"
     /\ RtResolve(prog.retA)
     /\ prog' = [prog EXCEPT !.pc = "returnA", !.turns = Turns(FALSE)]
  \/ /\ prog.pc = "returnA"
     /\ FiberReturn(prog.retA)
     /\ prog' = [prog EXCEPT !.pc = "callB", !.turns = Turns(FALSE)]
  \/ /\ prog.pc = "callB"
     /\ FiberCall("none")
     /\ prog' = [prog EXCEPT !.pc = "mkRet", !.B = fiberIdx, !.turns = Turns(FALSE)]
  \/ /\ prog.pc = "mkRet"
     /\ RtInit("PROMISE", FALSE, 0)
     /\ prog' = [prog EXCEPT !.pc = IF prog.async THEN "mkR0" ELSE AwaitEntry,
                             !.ret = nextId, !.turns = Turns(FALSE)]
  \/ /\ prog.pc = "mkR0"
     /\ RtInit("PROMISE", FALSE, 0)
     /\ prog' = [prog EXCEPT !.pc = "resolveR0", !.r0 = nextId, !.turns = Turns(FALSE)]
  \/ /\ prog.pc = "resolveR0"
     /\ RtResolve(prog.r0)
     /\ prog' = [prog EXCEPT !.pc = "awaitR0", !.turns = Turns(FALSE)]
  \/ /\ prog.pc = "awaitR0"
     /\ RtInit("PROMISE", TRUE, prog.r0)
     /\ prog' = [prog EXCEPT !.pc = "returnB", !.aw0 = nextId, !.turns = Turns(FALSE)]
  \/ /\ prog.pc = "mkNever"
     /\ RtInit("PROMISE", FALSE, 0)
     /\ prog' = [prog EXCEPT !.pc = "awaitNever", !.never = nextId, !.turns = Turns(FALSE)]
  \/ /\ prog.pc = "awaitNever"
     /\ RtInit("PROMISE", TRUE, prog.never)
     /\ prog' = [prog EXCEPT !.pc = AfterAwait, !.aw = nextId, !.turns = Turns(FALSE)]
  \/ /\ prog.pc = "awaitShared"
     /\ RtInit("PROMISE", TRUE, prog.shared)
     /\ prog' = [prog EXCEPT !.pc = AfterAwait, !.aw = nextId, !.turns = Turns(FALSE)]
  \/ /\ prog.pc = "mkInterval"
     /\ RtInit("Timeout", FALSE, 0)
     /\ prog' = [prog EXCEPT !.pc = "mkTimeout", !.timer = nextId, !.turns = Turns(FALSE)]
  \/ /\ prog.pc = "mkTimeout"
     /\ RtInit("Timeout", FALSE, 0)
     /\ prog' = [prog EXCEPT !.pc = AfterAwait, !.timer2 = nextId, !.turns = Turns(FALSE)]
  \/ /\ prog.pc = "thenShared"
     /\ RtInit("PROMISE", TRUE, prog.shared)
     /\ prog' = [prog EXCEPT !.pc = "end", !.turns = Turns(FALSE)]
  \/ /\ prog.pc = "returnB"
     /\ FiberReturn(prog.ret)
     /\ prog' = [prog EXCEPT !.pc = "end", !.turns = Turns(FALSE)]
  \/ /\ prog.pc = "resolveShared"
     /\ RtResolve(prog.shared)
     /\ prog' = [prog EXCEPT !.pc = "end", !.turns = Turns(FALSE)]
  \/ /\ prog.pc = "resolveRet"
     /\ RtResolve(prog.ret)
     /\ prog' = [prog EXCEPT !.pc = "end", !.turns = Turns(FALSE)]

\* The runtime runs the next microtask: a reaction job starts the code of
\* its continuation, a settled fn promise is passed on to the wrapped result.
ScMicrotask ==
  \/ /\ \E p \in DOMAIN rt : RunReaction(p)
     /\ prog' = [prog EXCEPT !.pc = Entry(exec'), !.turns = Turns(FALSE)]
  \/ /\ \E f \in DOMAIN wd : PromiseSettled(f, "user")
     /\ prog' = [prog EXCEPT !.turns = Turns(FALSE)]

\* The runtime runs the next entry of the immediate queue.
ScMacrotask ==
  \/ /\ RunImmediate
     /\ prog' = [prog EXCEPT !.pc = Entry(exec'), !.turns = Turns(TRUE)]
  \/ /\ StallCheck
     /\ prog' = [prog EXCEPT !.turns = Turns(TRUE)]
  \/ /\ prog.timer # 0
     /\ RunTimeout(prog.timer)
     /\ prog' = [prog EXCEPT !.pc = IF rt[prog.timer].runs = 1 THEN "thenShared" ELSE "end",
                             !.turns = Turns(TRUE)]

\* The code of the executing resource has run to its end.
ScReturns ==
  \/ /\ prog.pc = "end"
     /\ ReactionReturns \/ TaskReturns \/ MainReturns
     /\ prog' = [prog EXCEPT !.turns = Turns(FALSE)]
  \/ /\ ReactionAfter
     /\ prog' = [prog EXCEPT !.turns = Turns(FALSE)]

NextScenario ==
  \/ Statement
  \/ ScMicrotask
  \/ ScMacrotask
  \/ ScReturns

\* The runtime never stops while a statement, a microtask or an immediate
\* is due.
SpecScenario == InitScenario /\ [][NextScenario]_vars /\ WF_vars(NextScenario)

(* ------------------------------------------------------------------ *)
(* Properties of the scenarios                                          *)
(* ------------------------------------------------------------------ *)

\* The state of fiber B's `return`: "none" until fiberWatchdog wrapped it.
ResultB == IF prog.B \in DOMAIN wd THEN wd[prog.B].result ELSE "none"

\* Nothing is left to run: no executing code, no microtask, no immediate.
Quiescent == Idle /\ MicrotasksDrained /\ immQ = <<>>

\* C1: with enable() called beforehand, a fiber whose body awaits (at once,
\* or after awaiting a resolved promise) a promise P that the launching
\* context created before, with a pending immediate driving P, has its
\* return eventually rejected with PARENT_ASYNC_TRIGGER, and at no time has
\* it any other outcome.
C1_ParentTriggerRejects ==
  /\ [](prog.share = "parent" =>
          ResultB \in {"none", Unsettled, "PARENT_ASYNC_TRIGGER"})
  /\ (prog.share = "parent") ~> [](ResultB = "PARENT_ASYNC_TRIGGER")

\* P has been resolved by its immediate after B, which awaited it in a
\* continuation, was rejected.
C1_Witness ==
  /\ prog.share = "parent" /\ prog.async
  /\ ResultB = "PARENT_ASYNC_TRIGGER"
  /\ prog.shared \in DOMAIN rt /\ rt[prog.shared].settled

\* C2: with enable() called beforehand, when fiber A stored an
\* immediate-backed promise in `shared` and fiber B, launched from the same
\* context, awaits it, B's return has no outcome other than a rejection with
\* FOREIGN_ASYNC_TRIGGER, and has that outcome once nothing is left to run.
C2_ForeignTriggerRejects ==
  prog.share = "sibling" =>
    /\ ResultB \in {"none", Unsettled, "FOREIGN_ASYNC_TRIGGER"}
    /\ Quiescent => ResultB = "FOREIGN_ASYNC_TRIGGER"

\* C3: with enable() called beforehand, a fiber whose body awaits (at once,
\* or after awaiting a resolved promise) a promise nobody can resolve has
\* its return rejected with FIBER_STALL, by the first scheduler turn after
\* the last graph event: while the result is unsettled no turn has passed.
C3_StallRejects ==
  /\ [](prog.share = "own" =>
          /\ ResultB \in {"none", Unsettled, "FIBER_STALL"}
          /\ ResultB = Unsettled => prog.turns = 0)
  /\ (prog.share = "own") ~> [](ResultB = "FIBER_STALL")

\* B, which awaited the promise in a continuation, was rejected by the stall
\* check that ran as the first turn after the last graph event.
C3_Witness ==
  /\ prog.share = "own" /\ prog.async
  /\ ResultB = "FIBER_STALL"
  /\ prog.turns = 1
  /\ prog.aw \in DOMAIN nodes

(* ------------------------------------------------------------------ *)
(* Properties of the watchdog under the free environment                *)
(* ------------------------------------------------------------------ *)

\* Fibers that fiberWatchdog supervises.
Supervised == {f \in DOMAIN wd : wd[f].on}

Finalized(node) == BitAnd(node.flags, FINALIZED) # 0

\* C4: every node n with a trigger edge to t that is owned by a supervised
\* fiber f has t.fiberId = n.fiberId, or t = f.root, or f's result carries the
\* trigger fault.  It is stated of the step in which the watchdog should have
\* checked n, the setup of f's watchdog or the creation of n, and a result that
\* another outcome had settled before is let pass.
C4_TriggerFaultSurfaces ==
  [][\A n \in DOMAIN nodes' :
       LET t == nodes'[n].triggerOrigin
           f == nodes'[n].fiberId
       IN (/\ t # 0
           /\ f \in DOMAIN wd' /\ wd'[f].on
           /\ n \notin DOMAIN nodes \/ ~wd[f].on) =>
            \/ nodes'[t].fiberId = nodes'[n].fiberId
            \/ t = fibers'[f].root
            \/ wd'[f].result # Unsettled]_vars

RECURSIVE AncestorsWithin(_, _)
\* The fibers reached from the fibers of S in at most k steps to the parent.
AncestorsWithin(S, k) ==
  IF k = 0 THEN S
  ELSE AncestorsWithin(S \cup ({fibers[g].parent : g \in S} \ {0}), k - 1)

\* The chain of f's parent fibers.
Ancestors(f) == AncestorsWithin({fibers[f].parent} \ {0}, Cardinality(DOMAIN fibers))

\* The rows of the ownership table, in order: <<condition, outcome>>.
OwnershipRows(f, n) ==
  LET t == nodes[n].triggerOrigin
  IN << <<nodes[n].fiberId # f \/ t = 0, "ok">>,
        <<t = fibers[f].root, "ok">>,
        <<t # 0 /\ nodes[t].fiberId = nodes[n].fiberId, "ok">>,
        <<t # 0 /\ nodes[t].fiberId \in Ancestors(f), "PARENT_ASYNC_TRIGGER">>,
        <<TRUE, "FOREIGN_ASYNC_TRIGGER">> >>

\* The outcome of the first row whose condition holds.
FirstRow(rows) ==
  rows[CHOOSE i \in 1..Len(rows) : rows[i][1] /\ \A j \in 1..(i - 1) : ~rows[j][1]][2]

\* C5: for every supervised fiber f and every node n, the watchdog's
\* ownership validation of n yields the outcome of the first matching row of
\* the table: accept when n is not f's or has no trigger, accept when the
\* trigger is f.root, accept when the trigger is of n's fiber, PARENT_ASYNC_TRIGGER
\* when the trigger's fiber is an ancestor of f, else FOREIGN_ASYNC_TRIGGER.
C5_OwnershipTable ==
  \A f \in Supervised, n \in DOMAIN nodes :
    OwnershipFault(nodes, fibers[f].root, f, wd[f].parentFiberIds, n)
      = FirstRow(OwnershipRows(f, n))

\* A fiber without ancestors was rejected for a node whose trigger is owned
\* by another fiber: the last row of the table.
C5_Witness ==
  \E f \in Supervised, n \in DOMAIN nodes :
    /\ wd[f].result = "FOREIGN_ASYNC_TRIGGER"
    /\ FirstRow(OwnershipRows(f, n)) = "FOREIGN_ASYNC_TRIGGER"
    /\ OwnershipRows(f, n)[4][1] = FALSE

\* The stall check of fiber f is in the immediate queue.
StallCheckQueued(f) == (0 - f) \in Range(immQ)

\* This step runs the stall check of fiber f.
StallCheckRuns(f) ==
  /\ Idle /\ MicrotasksDrained
  /\ immQ # <<>> /\ Head(immQ) = 0 - f
  /\ immQ' = Tail(immQ)

\* C6: whenever a supervised fiber's pending set holds no unfinalized node of
\* a type other than PROMISE and its result is unsettled, its stall check is
\* queued for the next run of the immediate queue, and the step that runs it
\* rejects the result with FIBER_STALL.
C6_StallWithinOneTurn ==
  [][\A f \in Supervised :
       (wd[f].result = Unsettled /\ ~HasAsyncIO(M0, f)) =>
          /\ StallCheckQueued(f)
          /\ StallCheckRuns(f) => wd'[f].result = "FIBER_STALL"]_vars

\* C7: once the wrapped result of a fiber is settled, by fn's promise, by a
\* fault or by the stall check, no later event changes its outcome.
C7_SettlesOnce ==
  [][\A f \in Supervised :
       wd[f].result # Unsettled => wd'[f].result = wd[f].result]_vars

\* fn's promise settled after the stall check had rejected the result, which
\* kept FIBER_STALL.
C7_Witness ==
  \E f \in Supervised : wd[f].result = "FIBER_STALL" /\ wd[f].settleRan

\* C8: once the wrapped result of a fiber is settled, a later violation its
\* watchdog detects neither changes the result nor throws out of the hook
\* callback that observed it.
C8_LaterFaultsSwallowed ==
  [][\A f \in Supervised :
       wd[f].result # Unsettled =>
          /\ wd'[f].result = wd[f].result
          /\ hookThrew' # f]_vars

\* Nodes reachable from the nodes of S by execution-target and
\* trigger-target edges.
Targets(ns, n) == Range(ns[n].executionTargets) \cup Range(ns[n].triggerTargets)

RECURSIVE ReachFrom(_, _)
ReachFrom(ns, S) ==
  LET S2 == S \cup UNION {Targets(ns, n) : n \in S}
  IN IF S2 = S THEN S ELSE ReachFrom(ns, S2)

\* This step is the firing of fiber f's signal.
AbortFires(f) == wd[f].abort = "idle" /\ wd'[f].abort = "aborted"

Tainted(f) ==
  \A n \in ReachFrom(nodes', {fibers[f].root}) :
    ~Finalized(nodes'[n]) => HasFlag(nodes'[n].flags, ABORTED)

\* C9: when the signal of a fiber fires, every node reachable from
\* the fiber's root that is not FINALIZED carries ABORTED right afterwards.
C9_AbortTaintsReachable ==
  [][\A f \in DOMAIN wd : AbortFires(f) => Tainted(f)]_vars

\* The abort listener taints the whole graph of its fiber: when the signal
\* of a fiber fires after fiberWatchdog has registered the listener, every
\* node reachable from the fiber's root that is not FINALIZED carries ABORTED.
ListenerTaintsReachable ==
  [][\A f \in Supervised : AbortFires(f) => Tainted(f)]_vars

\* The signal fired and an unfinished node created by a finished one
\* carries ABORTED.
TaintedBehindFinished ==
  \E n \in DOMAIN nodes :
    /\ HasFlag(nodes[n].flags, ABORTED) /\ ~Finalized(nodes[n])
    /\ nodes[n].executionOrigin # 0
    /\ Finalized(nodes[nodes[n].executionOrigin])

\* C10: when the signal of a supervised fiber fires, a node that already has
\* POST_EXECUTION or RESOLVED keeps its flags.
C10_TaintSkipsFinished ==
  [][\A f \in Supervised :
       AbortFires(f) =>
         \A n \in DOMAIN nodes : Finalized(nodes[n]) => nodes'[n].flags = nodes[n].flags]_vars

(* ------------------------------------------------------------------ *)
(* Abort validation and the fault taxonomy                              *)
(* ------------------------------------------------------------------ *)

\* The rows of the abort table, in order: <<condition, outcome>>.
\* "ABORT_REASON" stands for the reason of the fiber's signal.
AbortRows(f, n) ==
  LET t == nodes[n].triggerOrigin
  IN << <<HasFlag(nodes[n].flags, ABORTED), "FIBER_ABORTED">>,
        <<t # 0 /\ HasFlag(nodes[t].flags, ABORTED) /\ nodes[t].fiberId = f,
          "FIBER_ABORTED">>,
        <<t # 0 /\ HasFlag(nodes[t].flags, ABORTED) /\ nodes[t].fiberId # f,
          "FOREIGN_ASYNC_ABORTED">>,
        <<wd[f].abort = "aborted", "ABORT_REASON">>,
        <<TRUE, "ok">> >>

\* C11: for every supervised fiber f and every node n, the watchdog's abort
\* validation of n yields FIBER_ABORTED when n has ABORTED; else, when n's
\* trigger origin has ABORTED, FIBER_ABORTED if the trigger is of fiber f and
\* FOREIGN_ASYNC_ABORTED if not; else the signal's reason when the signal is
\* raised; else no fault.
C11_AbortTable ==
  \A f \in Supervised, n \in DOMAIN nodes :
    AbortFault(nodes, f, wd[f].abort = "aborted", n) = FirstRow(AbortRows(f, n))

\* A fiber was rejected with FOREIGN_ASYNC_ABORTED for a node whose trigger,
\* owned by another fiber, carries ABORTED while the node does not.
C11_Witness ==
  \E f \in Supervised, n \in DOMAIN nodes :
    /\ wd[f].result = "FOREIGN_ASYNC_ABORTED"
    /\ FirstRow(AbortRows(f, n)) = "FOREIGN_ASYNC_ABORTED"

\* FiberErrorCode
FiberErrorCodes ==
  {"FOREIGN_ASYNC_TRIGGER", "PARENT_ASYNC_TRIGGER", "FOREIGN_ASYNC_ABORTED",
   "FIBER_ABORTED", "FIBER_STALL"}

\* The wrapped result of f was rejected by f's watchdog: it is settled, and
\* not with the outcome of the promise fn returned.
RejectedByWatchdog(f) == wd[f].result \notin {Unsettled, "user"}

\* C12: every rejection a watchdog delivers to its fiber's wrapped result is
\* a fault with one of the five codes, also after the signal has fired.
C12_TaxonomyClosed ==
  \A f \in Supervised : RejectedByWatchdog(f) => wd[f].result \in FiberErrorCodes

\* C12, amended: every rejection a watchdog delivers to its fiber's wrapped
\* result is a fault with one of the five codes, or, only once the fiber's
\* signal has fired, the reason of the signal.
C12_TaxonomyClosedUpToReason ==
  \A f \in Supervised :
    RejectedByWatchdog(f) =>
      \/ wd[f].result \in FiberErrorCodes
      \/ wd[f].result = "ABORT_REASON" /\ wd[f].abort = "aborted"

\* A fiber whose signal fired was rejected with the signal's reason.
C12_Witness ==
  \E f \in Supervised : wd[f].result = "ABORT_REASON" /\ wd[f].abort = "aborted"

(* ------------------------------------------------------------------ *)
(* Fibers, their roots and the fiber stack                              *)
(* ------------------------------------------------------------------ *)

\* The nodes that are the root of a fiber.
Roots(fs) == {fs[f].root : f \in DOMAIN fs}

\* C13: the fiberId of a node never changes after the node is created.
C13_FiberIdConstant ==
  [][\A n \in DOMAIN nodes : nodes'[n].fiberId = nodes[n].fiberId]_vars

\* C13, amended: the fiberId of a node never changes after the node is
\* created, unless the node is the root of a fiber (the execution context a
\* fiber was constructed in), which enable() and disable() of that fiber
\* relabel.
C13_FiberIdConstantExceptRoots ==
  [][\A n \in DOMAIN nodes :
       nodes'[n].fiberId # nodes[n].fiberId => n \in Roots(fibers')]_vars

\* A node that is no root still carries the id of the fiber that owned its
\* execution context when it was created, after disable() relabelled that
\* context.
C13_Witness ==
  \E n \in DOMAIN nodes \ Roots(fibers) :
    /\ nodes[n].executionOrigin \in Roots(fibers)
    /\ nodes[n].fiberId # nodes[nodes[n].executionOrigin].fiberId
    /\ ~fibers[nodes[n].fiberId].active

\* getFiber() in the state a step leads to.
GetFiberNext == getFiber([fiberStack |-> fiberStack', fibers |-> fibers'])

\* This step activates fiber f.
Activates(f) ==
  /\ f \in DOMAIN fibers' /\ fibers'[f].active
  /\ f \in DOMAIN fibers => ~fibers[f].active

\* This step deactivates fiber f.
Deactivates(f) ==
  /\ f \in DOMAIN fibers /\ fibers[f].active
  /\ ~fibers'[f].active

\* C14: while a fiber f is active, f.root.fiberId = f.fiberId; when f is
\* deactivated, f.root.fiberId becomes the id of f's parent, or 0.
C14_RootFollowsFiber ==
  [][/\ \A f \in DOMAIN fibers' :
          fibers'[f].active => nodes'[fibers'[f].root].fiberId = f
     /\ \A f \in DOMAIN fibers :
          Deactivates(f) => nodes'[fibers[f].root].fiberId = fibers[f].parent]_vars

\* C14, amended: when a fiber f is activated, f.root.fiberId becomes
\* f.fiberId; when f is deactivated, f.root.fiberId becomes the id of the
\* topmost active fiber left on the fiber stack, or 0 when there is none.
C14_RootFollowsStack ==
  [][/\ \A f \in DOMAIN fibers' :
          Activates(f) => nodes'[fibers'[f].root].fiberId = f
     /\ \A f \in DOMAIN fibers :
          Deactivates(f) => nodes'[fibers[f].root].fiberId = GetFiberNext]_vars

\* A fiber was deactivated while its parent was not on the stack, and its
\* root carries neither its id nor its parent's.
C14_Witness ==
  \E f \in DOMAIN fibers :
    /\ ~fibers[f].active
    /\ fibers[f].parent # 0 /\ fibers[f].parent \notin Range(fiberStack)
    /\ nodes[fibers[f].root].fiberId \notin {f, fibers[f].parent}

C16_TaintVisitsOnce ==
  [][prog.todo # <<>> =>
       /\ HasFlag(nodes[Head(prog.todo)].flags, ABORTED) =>
            prog'.todo = Tail(prog.todo) /\ prog'.marked = prog.marked
       /\ \A n \in DOMAIN nodes : prog'.marked[n] <= 1]_vars

(* ------------------------------------------------------------------ *)
(* Nodes and the lifecycle events                                       *)
(* ------------------------------------------------------------------ *)

\* The FINALIZED bits a step sets on a node: the work of an after or a
\* promiseResolve event (the taint sets ABORTED only).
GainsFinalized(old, new) ==
  BitAnd(new.flags, FINALIZED) # BitAnd(old.flags, FINALIZED)

\* C17: a node that receives POST_EXECUTION or RESOLVED from a hook event has
\* no observer attached after the event, also when the observer's callback
\* raised a fault and when the node is inactive.
C17_FinalizedUnobserved ==
  [][\A n \in DOMAIN nodes :
       GainsFinalized(nodes[n], nodes'[n]) => nodes'[n].notifyObserver = 0]_vars

\* C18: an event delivered for a node that is not active leaves the flags of
\* that node as they are, and an init event in the execution context of a
\* node that is not active creates no child node.
C18_InactiveIgnoresEvents ==
  [][/\ \A n \in DOMAIN nodes :
          ~nodes[n].active => nodes'[n].flags = nodes[n].flags
     /\ \A id \in DOMAIN nodes' \ DOMAIN nodes :
          nodes'[id].executionOrigin # 0 =>
            nodes[nodes'[id].executionOrigin].active]_vars

\* C19: the lookup finds every node the graph contains, from whichever
\* tracked execution context the hook fires in: a promiseResolve for a
\* promise that has a node sets RESOLVED on that node, and a resource created
\* with a trigger that has a node gets that node as its triggerOrigin.
C19_LookupComplete ==
  [][hookEnabled /\ exec \in DOMAIN nodes =>
       /\ \A p \in DOMAIN nodes \cap DOMAIN rt :
            ~rt[p].settled /\ rt'[p].settled =>
              HasFlag(nodes'[p].flags, RESOLVED)
       /\ \A id \in DOMAIN nodes' \ DOMAIN nodes :
            id \in DOMAIN rt' /\ rt'[id].parent \in DOMAIN nodes =>
              nodes'[id].triggerOrigin = rt'[id].parent]_vars

(* ------------------------------------------------------------------ *)
(* The stall check                                                      *)
(* ------------------------------------------------------------------ *)

\* The scheduled, not yet run stall-check immediates of fiber f's watchdog.
QueuedChecks(q, f) == Cardinality({i \in 1..Len(q) : q[i] = 0 - f})

\* This step delivers an event to the observer of fiber f: a before, after or
\* promiseResolve of an active node it observes, or the init of a child of a
\* node it observes.
ObservedEvent(f) ==
  \/ \E n \in DOMAIN nodes :
       /\ nodes[n].active /\ nodes[n].notifyObserver = f
       /\ BitAnd(nodes'[n].flags, BitOr(PRE_EXECUTION, FINALIZED)) #
            BitAnd(nodes[n].flags, BitOr(PRE_EXECUTION, FINALIZED))
  \/ \E id \in DOMAIN nodes' \ DOMAIN nodes :
       /\ nodes'[id].executionOrigin # 0
       /\ nodes[nodes'[id].executionOrigin].notifyObserver = f

\* C20: every watchdog has at most one scheduled stall check that has not
\* run yet, and a step that delivers an event to its observer leaves exactly
\* one scheduled, whether or not one was scheduled before.
C20_StallCheckCoalesced ==
  [][\A f \in DOMAIN wd' :
       /\ QueuedChecks(immQ', f) = IF wd'[f].immediate THEN 1 ELSE 0
       /\ f \in DOMAIN wd /\ ObservedEvent(f) => QueuedChecks(immQ', f) = 1]_vars

\* An Immediate observed by a supervised fiber has begun to run while the
\* stall check scheduled at setup is still queued behind it.
C20_Witness ==
  \E f \in Supervised :
    /\ exec \in DOMAIN nodes /\ phase = "run"
    /\ rt[exec].type = "Immediate"
    /\ nodes[exec].notifyObserver = f /\ nodes[exec].active
    /\ HasFlag(nodes[exec].flags, PRE_EXECUTION)
    /\ wd[f].immediate /\ immQ = <<0 - f>>

\* The pending nodes of fiber f that are asynchronous IO still outstanding:
\* neither POST_EXECUTION nor RESOLVED, and not of type PROMISE.
OutstandingIO(ns, w, f) ==
  {n \in Range(w[f].pending) :
     ~HasFlag(ns[n].flags, POST_EXECUTION) /\ ~HasFlag(ns[n].flags, RESOLVED)
       /\ ns[n].type # "PROMISE"}

\* C21: a step that rejects a watchdog's result with FIBER_STALL is taken in a
\* state where its pending set holds no node that is asynchronous IO still
\* outstanding, and leaves none in it.
C21_NoStallWhileIO ==
  [][\A f \in Supervised :
       wd[f].result = Unsettled /\ wd'[f].result = "FIBER_STALL" =>
         OutstandingIO(nodes, wd, f) = {} /\ OutstandingIO(nodes', wd', f) = {}]_vars

\* The stall check of a supervised fiber has run while a timer or an immediate
\* of the fiber was outstanding, and the result is still unsettled.
C21_Witness ==
  \E f \in Supervised :
    /\ ~wd[f].immediate /\ ~wd[f].settleRan
    /\ wd[f].result = Unsettled
    /\ OutstandingIO(nodes, wd, f) # {}

(* ------------------------------------------------------------------ *)
(* disable() and the fiber stack                                        *)
(* ------------------------------------------------------------------ *)

\* C22: a call of disable() takes from the fiber stack only the fiber it is
\* called on, the one it makes inactive: a fiber that leaves the stack in a
\* step is inactive after it, and after every step every active fiber is on
\* the stack.
C22_DisableRemovesOnlyItself ==
  [][/\ \A g \in Range(fiberStack) :
          g \notin Range(fiberStack') => ~fibers'[g].active
     /\ \A g \in DOMAIN fibers' :
          fibers'[g].active => g \in Range(fiberStack')]_vars

(* ------------------------------------------------------------------ *)
(* Cancellation                                                         *)
(* ------------------------------------------------------------------ *)

\* C23: the firing of a fiber's signal sets ABORTED only on that fiber's root
\* and on nodes that fiber owns, and a fiber whose own signal has not fired is
\* never rejected with FIBER_ABORTED.
C23_AbortIsolated ==
  [][/\ \A f \in DOMAIN wd :
          AbortFires(f) =>
            \A n \in DOMAIN nodes :
              HasFlag(nodes'[n].flags, ABORTED) /\ ~HasFlag(nodes[n].flags, ABORTED)
                => n = fibers[f].root \/ nodes[n].fiberId = f
     /\ \A f \in DOMAIN wd' :
          wd'[f].abort # "aborted" => wd'[f].result # "FIBER_ABORTED"]_vars

\* The signal of supervised fiber f has fired and its listener has run (the
\* listener marks the root first), and the result of f is unsettled.
CancelledUnsettled(f) ==
  /\ f \in Supervised
  /\ wd[f].abort = "aborted"
  /\ HasFlag(nodes[fibers[f].root].flags, ABORTED)
  /\ wd[f].result = Unsettled

\* C24: a supervised fiber whose signal fires while its result is unsettled
\* gets its result settled eventually, whatever the user's code does or
\* leaves undone afterwards.
C24_CancelledSettles ==
  \A f \in 1..MaxFibers :
    CancelledUnsettled(f)
      ~> (f \in Supervised /\ wd[f].result # Unsettled)

(* ------------------------------------------------------------------ *)
(* The pending set and the shape of the graph                           *)
(* ------------------------------------------------------------------ *)

\* The nodes below the nodes of S along executionTargets, S included.
RECURSIVE ExecutionReach(_, _)
ExecutionReach(ns, S) ==
  LET S2 == S \cup UNION {Range(ns[n].executionTargets) : n \in S}
  IN IF S2 = S THEN S ELSE ExecutionReach(ns, S2)

\* The descendants of fiber f's root.
Descendants(f) ==
  ExecutionReach(nodes, Range(nodes[fibers[f].root].executionTargets))

\* C25: while the result of a supervised fiber is unsettled, its pending set
\* holds exactly the descendants of its root that the fiber owns and that
\* have neither POST_EXECUTION nor RESOLVED.  Nodes that are the root of a
\* fiber, whose fiberId enable() and disable() rewrite, are left aside.
C25_PendingExact ==
  \A f \in Supervised :
    wd[f].result = Unsettled =>
      Range(wd[f].pending) \ Roots(fibers) =
        {n \in Descendants(f) \ Roots(fibers) :
           nodes[n].fiberId = f /\ ~Finalized(nodes[n])}

\* C26: the graph is acyclic in every state, because a step adds execution
\* and trigger edges only from nodes to nodes it creates, removes none, and
\* leaves the origins of the nodes that exist as they are.
C26_GraphAcyclic ==
  [][/\ \A n \in DOMAIN nodes' :
          n \notin ReachFrom(nodes', Targets(nodes', n))
     /\ \A n \in DOMAIN nodes :
          /\ Targets(nodes, n) \subseteq Targets(nodes', n)
          /\ Targets(nodes', n) \ Targets(nodes, n) \subseteq DOMAIN nodes' \ DOMAIN nodes
          /\ nodes'[n].executionOrigin = nodes[n].executionOrigin
          /\ nodes'[n].triggerOrigin = nodes[n].triggerOrigin]_vars

\* A node whose trigger is not the node that created it: the graph has two
\* paths to it.
C26_Witness ==
  \E n \in DOMAIN nodes :
    /\ nodes[n].executionOrigin # 0 /\ nodes[n].triggerOrigin # 0
    /\ nodes[n].triggerOrigin # nodes[n].executionOrigin
    /\ n \in Range(nodes[nodes[n].triggerOrigin].triggerTargets)
    /\ n \in Range(nodes[nodes[n].executionOrigin].executionTargets)

====
